---- MODULE Spec2Model ----
(***************************************************************************)
(* A model of the stock query service: the StockQuery engine               *)
(* (stock_data_query.py) and the FastAPI route handlers that call it       *)
(* (main.py).  Tables are sets of rows, every storage round trip is one    *)
(* step of the caller that issues it, and the statements between two       *)
(* round trips run with the step that precedes them.                        *)
(***************************************************************************)
EXTENDS Integers, Sequences, FiniteSets, TLC

\* ------------------------------------------------------------------ bounds
MaxStocks == 45        \* largest number of rows of `stocks` at start
MaxPage == 4           \* largest page number a caller asks for
MaxMutations == 1      \* inserts and deletes by other clients of the database
NumCallers == 2        \* clients of the engine
MaxBarDays == 10       \* longest run of calendar days the daily bars cover
FirstToday == 28       \* earliest value of CURDATE(), a day number (day 0 is a Monday)
PoolSize == 2          \* connections the engine's pool hands out at one time

\* ------------------------------------------------------- program constants
PageSize == 20         \* rows per page
LookbackDays == 14     \* INTERVAL 14 DAY
RecentLimit == 7       \* LIMIT 7
WeekdayCut == 5        \* WEEKDAY(trade_date) < 5
DaysPerWeek == 7       \* WEEKDAY() counts Monday = 0 .. Sunday = 6

Callers == 1..NumCallers
Client == CHOOSE c \in Callers : \A d \in Callers : c <= d

\* --------------------------------------------------------------- the data
Areas == {"bj", "sh"}
Industries == {"bank", "tech"}
AreaArgs == {"", "bj", "sh", "xx"}
IndustryArgs == {"", "bank", "tech", "xx"}
SymbolArgs == {"", "1", "99999"}
NameArgs == {"", "pingan", "nobody"}
TsCodeArgs == {"", "000001.SZ", "999999.XX"}

\* A row of `stocks`: the columns the queries read.
StockRow(i, a, ind) ==
    [id |-> i, symbol |-> ToString(i),
     name |-> IF i <= 2 THEN "pingan" ELSE "n" \o ToString(i),
     area |-> a, industry |-> ind]

\* The table as loaded: k rows, ids 1..k, both areas and both industries mixed.
MkStocks(k) ==
    {StockRow(i, IF i % 2 = 1 THEN "bj" ELSE "sh",
                 IF i % 3 = 0 THEN "bank" ELSE "tech") : i \in 1..k}

Max(S) == CHOOSE x \in S : \A y \in S : y <= x
Min2(a, b) == IF a <= b THEN a ELSE b

\* Mutant: ORDER BY id DESC where the query says ASC.
SortAsc_Descending(S) ==
    [i \in 1..Cardinality(S) |->
        CHOOSE r \in S : Cardinality({x \in S : x.id > r.id}) = i - 1]

\* ORDER BY key ASC over a set of rows with distinct keys.
RECURSIVE SortAsc(_)
SortAsc(S) ==
    IF S = {} THEN <<>>
    ELSE LET r == CHOOSE x \in S : \A y \in S : x.id <= y.id
         IN  <<r>> \o SortAsc(S \ {r})

\* ORDER BY id DESC
RECURSIVE SortDesc(_)
SortDesc(S) ==
    IF S = {} THEN <<>>
    ELSE LET r == CHOOSE x \in S : \A y \in S : x.id >= y.id
         IN  <<r>> \o SortDesc(S \ {r})

\* ORDER BY trade_date DESC over rows of one ts_code (one bar per day)
RECURSIVE SortDateDesc(_)
SortDateDesc(S) ==
    IF S = {} THEN <<>>
    ELSE LET r == CHOOSE x \in S : \A y \in S : x.trade_date >= y.trade_date
         IN  <<r>> \o SortDateDesc(S \ {r})

\* LIMIT :limit OFFSET :offset applied to an ordered result (limit >= 0).
LimitOffset(s, limit, offset) ==
    SubSeq(s, offset + 1, Min2(Len(s), offset + limit))

\* WHERE clause of the three list queries: filter "none", "area" or "industry".
Matches(row, filter, v) ==
    CASE filter = "none" -> TRUE
      [] filter = "area" -> row.area = v
      [] filter = "industry" -> row.industry = v

\* SELECT COUNT(*) FROM stocks [WHERE area = :area | industry = :industry]
CountRows(table, filter, v) ==
    Cardinality({r \in table : Matches(r, filter, v)})

\* SELECT ... FROM stocks [WHERE ...] ORDER BY id ASC LIMIT :limit OFFSET :offset
SelectPage(table, filter, v, limit, offset) ==
    LimitOffset(SortAsc({r \in table : Matches(r, filter, v)}), limit, offset)

\* Mutant: the page count rounded down.
TotalPages_Floor(total) ==
    IF total > 0 THEN total \div PageSize ELSE 0

\* (total + 20 - 1) // 20 if total > 0 else 0
TotalPages(total) ==
    IF total > 0 THEN (total + PageSize - 1) \div PageSize ELSE 0

\* Mutant: the offset of a 0-based page number.
Offset_ZeroBased(n) == PageSize * n

\* offset = 20 * (n - 1)
Offset(n) == PageSize * (n - 1)

\* Mutant: the size of the last page taken as the remainder, which is 0 for a
\* full last page.
FilteredLimit_Modulo(n, total_pages, total) ==
    IF n < total_pages THEN PageSize ELSE total % PageSize

\* limit = 20 if n < total_pages else (total - offset)
FilteredLimit(n, total_pages, total) ==
    IF n < total_pages THEN PageSize ELSE total - Offset(n)

\* ------------------------------------------------- the other four tables
\* WEEKDAY(d): 0 = Monday .. 6 = Sunday
Weekday(d) == d % DaysPerWeek

\* One daily bar of ts on every weekday of the days lo..hi.
WeekdayBars(ts, lo, hi) ==
    {[ts_code |-> ts, trade_date |-> d] :
        d \in {x \in lo..hi : Weekday(x) < WeekdayCut}}

\* SELECT * FROM stock_daily_data WHERE ts_code = :ts_code
\*   AND trade_date >= DATE_SUB(CURDATE(), INTERVAL 14 DAY)
\*   AND WEEKDAY(trade_date) < 5 ORDER BY trade_date DESC LIMIT 7
InLookback(d, curdate) == d >= curdate - LookbackDays

\* Mutant: the weekday condition left out of the WHERE clause.
IsWeekday_Any(d) == TRUE

IsWeekday(d) == Weekday(d) < WeekdayCut

SelectRecent(table, ts, curdate) ==
    LimitOffset(
        SortDateDesc({r \in table : /\ r.ts_code = ts
                                     /\ InLookback(r.trade_date, curdate)
                                     /\ IsWeekday(r.trade_date)}),
        RecentLimit, 0)

\* SELECT * FROM stock_technical_indicators_clean WHERE ts_code = :ts_code
\*   ORDER BY id DESC LIMIT 1
SelectLatest(table, ts) ==
    LimitOffset(SortDesc({r \in table : r.ts_code = ts}), 1, 0)

\* SELECT * FROM ai_predictions WHERE ts_code = :ts_code
\*   AND predict_date = CURDATE() ORDER BY id DESC
SelectToday(table, ts, curdate) ==
    SortDesc({r \in table : r.ts_code = ts /\ r.predict_date = curdate})

\* SELECT ... FROM ai_predictions_top3 ORDER BY id ASC
SelectTop3(table) == SortAsc(table)

\* SELECT ... FROM stocks WHERE symbol = :symbol LIMIT 1 (no ORDER BY: any match)
MatchSymbol(table, v) == {r \in table : r.symbol = v}

\* SELECT ... FROM stocks WHERE name = :name LIMIT 1 (no ORDER BY: any match)
MatchName(table, v) == {r \in table : r.name = v}

\* ---------------------------------------------------------------- state
VARIABLES
    stocks,        \* table stocks
    bars,          \* table stock_daily_data
    indicators,    \* table stock_technical_indicators_clean
    predictions,   \* table ai_predictions
    top3,          \* table ai_predictions_top3
    today,         \* CURDATE() of the database server
    stock_query,   \* main.py's module-level engine: "StockQuery" or "None"
    mutations,     \* rows other clients have inserted or deleted so far
    call           \* per caller: the engine call (and HTTP request) in progress

db == <<stocks, bars, indicators, predictions, top3, today>>
vars == <<stocks, bars, indicators, predictions, top3, today, stock_query,
          mutations, call>>

\* What a call returns: a list of rows, an optional row, or a number.
NoResult == [kind |-> "none", rows |-> <<>>, num |-> 0]
ListResult(rows) == [kind |-> "list", rows |-> rows, num |-> 0]
RowResult(rows) == [kind |-> IF rows = <<>> THEN "none" ELSE "row", rows |-> rows, num |-> 0]
IntResult(k) == [kind |-> "int", rows |-> <<>>, num |-> k]

\* Python's `not result` for these values: None, [] and 0 are falsy.
Falsy(result) ==
    \/ result.kind = "none"
    \/ result.kind = "list" /\ result.rows = <<>>
    \/ result.kind = "int" /\ result.num = 0

IdleCall ==
    [route |-> "none", op |-> "idle", pc |-> "idle", stage |-> "none",
     n |-> 0, check_total |-> FALSE, filter |-> "none", arg |-> "",
     total |-> 0, total_pages |-> 0, limit |-> 0, rows |-> <<>>,
     actual_total |-> 0,
     outcome |-> "none", error |-> "", result |-> NoResult,
     held |-> 0, acquired |-> 0, queries |-> 0, status |-> 0]

\* ------------------------------------------------------- the HTTP layer
\* Routes whose handler raises HTTPException(404) inside its try block when
\* `not result`.
NotFoundRoutes ==
    {"get_stock_by_symbol", "get_stock_by_name", "get_recent_7_days_data",
     "get_latest_technical_indicators", "get_top3_stock_predictions",
     "get_today_predictions"}

\* Python's exception classes that occur: every one derives from Exception.
IsInstance(cls, base) == cls = base \/ base = "Exception"

\* Mutant: the broad clause written first, so that it takes every exception.
ExceptClauses_BroadFirst(route) ==
    << [catch |-> "Exception", status |-> 500],
       [catch |-> "ValueError", status |-> 400] >>

\* The except clauses of a route's handler, in order.
ExceptClauses(route) ==
    IF route = "get_top3_stock_predictions"
    THEN << [catch |-> "Exception", status |-> 500] >>
    ELSE << [catch |-> "ValueError", status |-> 400],
            [catch |-> "Exception", status |-> 500] >>

\* What the try block of a handler raises, given how the engine call ended:
\* the engine's exception, or the handler's own HTTPException(404).
TryBody(route, outcome, result) ==
    IF outcome # "return" THEN [cls |-> outcome, status |-> 0]
    ELSE IF route \in NotFoundRoutes /\ Falsy(result)
         THEN [cls |-> "HTTPException", status |-> 404]
         ELSE [cls |-> "none", status |-> 200]

\* The status the client receives: the first except clause that matches the
\* raised exception replaces it by its own HTTPException.
HandlerStatus(route, outcome, result) ==
    LET e == TryBody(route, outcome, result)
        cl == ExceptClauses(route)
        hit == {i \in 1..Len(cl) : IsInstance(e.cls, cl[i].catch)}
    IN  IF e.cls = "none" THEN 200
        ELSE IF hit # {} THEN cl[CHOOSE i \in hit : \A j \in hit : i <= j].status
        ELSE IF e.cls = "HTTPException" THEN e.status
        ELSE 500

\* check_db_connection(): HTTPException(500) when the engine is not set.
check_db_connection == stock_query # "None"

\* ------------------------------------------ how an engine call progresses
\* Leaving a `with self.engine.connect()` block returns its connection.
Release(held) == held - 1

\* Mutant: an exception leaves the with blocks without closing anything.
Unwind_Leak(held) == held

\* An exception leaves every enclosing with block.
Unwind(held) == 0

\* The call ends; through a route, the handler maps the ending to a status.
Finish(rec, outcome, error, result, held) ==
    [rec EXCEPT !.pc = "done", !.stage = "none", !.outcome = outcome,
                !.error = error, !.result = result, !.held = held,
                !.status = IF rec.route = "none" THEN 0
                           ELSE HandlerStatus(rec.route, outcome, result)]

\* Leaving the with block of the round trip that just ran.
Leave(rec) == [rec EXCEPT !.held = Release(@)]

Return(rec, result) == Finish(rec, "return", "", result, rec.held)

RaiseValueError(rec, error) == Finish(rec, "ValueError", error, NoResult, Unwind(rec.held))

\* except SQLAlchemyError as e: raise Exception(...)
RaiseException(rec) == Finish(rec, "Exception", "StorageFailure", NoResult, Unwind(rec.held))

\* The next storage round trip of the call: first a connection, then the query.
Goto(rec, stage) == [rec EXCEPT !.pc = "connect", !.stage = stage]

NewCall(route, op, n, check_total, filter, arg) ==
    [IdleCall EXCEPT !.route = route, !.op = op, !.n = n,
                     !.check_total = check_total, !.filter = filter, !.arg = arg]

\* ------------------------------------- StockQuery: up to the first query
\* Each operator is the call record after the statements that precede the
\* method's first storage round trip.
\* Mutant: the page check never made, whatever check_total says.
get_stocks_by_page_number_NoCheck(route, n, check_total) ==
    LET rec == NewCall(route, "get_stocks_by_page_number", n, check_total, "none", "")
    IN  IF n < 1 THEN RaiseValueError(rec, "InvalidArgument")
        ELSE Goto([rec EXCEPT !.limit = PageSize], "fetch")

get_stocks_by_page_number(route, n, check_total) ==
    LET rec == NewCall(route, "get_stocks_by_page_number", n, check_total, "none", "")
    IN  IF n < 1 THEN RaiseValueError(rec, "InvalidArgument")
        ELSE IF check_total THEN Goto(rec, "count")
        ELSE Goto([rec EXCEPT !.limit = PageSize], "fetch")

get_total_records == Goto(NewCall("none", "get_total_records", 0, FALSE, "none", ""), "count")

get_total_pages == Goto(NewCall("none", "get_total_pages", 0, FALSE, "none", ""), "count")

get_stock_by_symbol(route, symbol) ==
    LET rec == NewCall(route, "get_stock_by_symbol", 0, FALSE, "none", symbol)
    IN  IF symbol = "" THEN RaiseValueError(rec, "InvalidArgument")
        ELSE Goto(rec, "query")

get_stock_by_name(route, name) ==
    LET rec == NewCall(route, "get_stock_by_name", 0, FALSE, "none", name)
    IN  IF name = "" THEN RaiseValueError(rec, "InvalidArgument")
        ELSE Goto(rec, "query")

\* Mutant: the area is checked only after the count query has run.
get_stocks_by_page_and_area_CountFirst(route, n, area) ==
    LET rec == NewCall(route, "get_stocks_by_page_and_area", n, FALSE, "area", area)
    IN  IF n < 1 THEN RaiseValueError(rec, "InvalidArgument")
        ELSE IF area = ""
             THEN RaiseValueError([rec EXCEPT !.acquired = 1, !.queries = 1],
                                  "InvalidArgument")
        ELSE Goto(rec, "count")

get_stocks_by_page_and_area(route, n, area) ==
    LET rec == NewCall(route, "get_stocks_by_page_and_area", n, FALSE, "area", area)
    IN  IF n < 1 THEN RaiseValueError(rec, "InvalidArgument")
        ELSE IF area = "" THEN RaiseValueError(rec, "InvalidArgument")
        ELSE Goto(rec, "count")

get_area_total_records(area) ==
    Goto(NewCall("none", "get_area_total_records", 0, FALSE, "area", area), "count")

get_area_total_pages(area) ==
    Goto(NewCall("none", "get_area_total_pages", 0, FALSE, "area", area), "count")

get_stocks_by_page_and_industry(route, n, industry) ==
    LET rec == NewCall(route, "get_stocks_by_page_and_industry", n, FALSE, "industry", industry)
    IN  IF n < 1 THEN RaiseValueError(rec, "InvalidArgument")
        ELSE IF industry = "" THEN RaiseValueError(rec, "InvalidArgument")
        ELSE Goto(rec, "count")

get_industry_total_records(industry) ==
    Goto(NewCall("none", "get_industry_total_records", 0, FALSE, "industry", industry), "count")

get_industry_total_pages(industry) ==
    Goto(NewCall("none", "get_industry_total_pages", 0, FALSE, "industry", industry), "count")

get_recent_7_days_data(route, ts_code) ==
    LET rec == NewCall(route, "get_recent_7_days_data", 0, FALSE, "none", ts_code)
    IN  IF ts_code = "" THEN RaiseValueError(rec, "InvalidArgument")
        ELSE Goto(rec, "query")

get_latest_technical_indicators(route, ts_code) ==
    LET rec == NewCall(route, "get_latest_technical_indicators", 0, FALSE, "none", ts_code)
    IN  IF ts_code = "" THEN RaiseValueError(rec, "InvalidArgument")
        ELSE Goto(rec, "query")

get_today_predictions_by_ts_code(route, ts_code) ==
    LET rec == NewCall(route, "get_today_predictions_by_ts_code", 0, FALSE, "none", ts_code)
    IN  IF ts_code = "" THEN RaiseValueError(rec, "InvalidArgument")
        ELSE Goto(rec, "query")

get_top3_predictions(route) ==
    Goto(NewCall(route, "get_top3_predictions", 0, FALSE, "none", ""), "query")

\* --------------------------------------------- the storage round trips
Idle(c) == call[c].pc = "idle"

\* with self.engine.connect() as conn: a connection leaves the pool, or the
\* database is unreachable and the method wraps the SQLAlchemyError.
\* The connections checked out of the engine's pool by all callers together.
RECURSIVE HeldBy(_)
HeldBy(cs) ==
    IF cs = {} THEN 0
    ELSE LET c == CHOOSE x \in cs : TRUE
         IN  call[c].held + HeldBy(cs \ {c})

CheckedOut == HeldBy(Callers)

\* with self.engine.connect() as conn: a connection is handed out while the
\* pool has one, and the wait for one ends in a storage failure.
Connect(c) ==
    /\ call[c].pc = "connect"
    /\ \E ok \in BOOLEAN :
         /\ ok => CheckedOut < PoolSize
         /\ call' = [call EXCEPT ![c] =
                      IF ok THEN [@ EXCEPT !.pc = "execute", !.held = @ + 1,
                                           !.acquired = @ + 1]
                      ELSE RaiseException(@)]
    /\ UNCHANGED <<db, stock_query, mutations>>

\* Mutant: no early return for a filter that matches nothing.
NoMatch_Never(total) == FALSE

\* if area_total == 0: return []
NoMatch(total) == total = 0

\* What follows SELECT COUNT(*) in the method that issued it.
AfterCount(rec, total) ==
    CASE rec.op \in {"get_total_records", "get_area_total_records",
                     "get_industry_total_records"} ->
            Return(rec, IntResult(total))
      [] rec.op \in {"get_total_pages", "get_area_total_pages",
                     "get_industry_total_pages"} ->
            Return([rec EXCEPT !.total = total, !.total_pages = TotalPages(total)],
                   IntResult(TotalPages(total)))
      [] rec.op = "get_stocks_by_page_number" ->
            LET r == [rec EXCEPT !.total = total, !.total_pages = TotalPages(total),
                                 !.limit = PageSize]
            IN  IF r.n > r.total_pages THEN RaiseValueError(r, "PageOutOfRange")
                ELSE Goto(r, "fetch")
      [] OTHER ->
            LET r == [rec EXCEPT !.total = total]
            IN  IF NoMatch(total) THEN Return(r, ListResult(<<>>))
                ELSE Goto(r, "pages")

\* get_total_records / get_area_total_records / get_industry_total_records
CountExecute(c) ==
    /\ call[c].pc = "execute" /\ call[c].stage = "count"
    /\ \E ok \in BOOLEAN :
         call' = [call EXCEPT ![c] =
                    IF ok
                    THEN AfterCount(Leave([@ EXCEPT !.queries = @ + 1]),
                                    CountRows(stocks, @.filter, @.arg))
                    ELSE RaiseException(@)]
    /\ UNCHANGED <<db, stock_query, mutations>>

\* What follows get_area_total_pages / get_industry_total_pages in the two
\* filtered list methods: the page check, then offset and limit.
AfterPages(rec, count) ==
    LET r == [rec EXCEPT !.total_pages = TotalPages(count)]
    IN  IF r.n > r.total_pages THEN RaiseValueError(r, "PageOutOfRange")
        ELSE Goto([r EXCEPT !.limit = FilteredLimit(r.n, r.total_pages, r.total)],
                  "fetch")

PagesExecute(c) ==
    /\ call[c].pc = "execute" /\ call[c].stage = "pages"
    /\ \E ok \in BOOLEAN :
         call' = [call EXCEPT ![c] =
                    IF ok
                    THEN AfterPages(Leave([@ EXCEPT !.queries = @ + 1]),
                                    CountRows(stocks, @.filter, @.arg))
                    ELSE RaiseException(@)]
    /\ UNCHANGED <<db, stock_query, mutations>>

\* What follows the slice query.  The unfiltered method, still inside its
\* with block, counts again when the slice is empty.
AfterFetch(rec, rows) ==
    IF rec.op = "get_stocks_by_page_number"
       /\ rows = <<>> /\ rec.n > 1 /\ rec.check_total
    THEN Goto([rec EXCEPT !.rows = rows], "recount")
    ELSE Return(Leave([rec EXCEPT !.rows = rows]), ListResult(rows))

\* LIMIT :limit OFFSET :offset; the server rejects a negative LIMIT.
FetchExecute(c) ==
    /\ call[c].pc = "execute" /\ call[c].stage = "fetch"
    /\ \E ok \in BOOLEAN :
         call' = [call EXCEPT ![c] =
                    IF ok /\ @.limit >= 0
                    THEN AfterFetch([@ EXCEPT !.queries = @ + 1],
                                    SelectPage(stocks, @.filter, @.arg, @.limit,
                                               Offset(@.n)))
                    ELSE RaiseException(@)]
    /\ UNCHANGED <<db, stock_query, mutations>>

\* Mutant: the comparison strict, so a table that ends exactly at the offset
\* passes.
BeyondData_Strict(actual_total, offset) == actual_total < offset

\* if actual_total <= offset: raise ValueError
BeyondData(actual_total, offset) == actual_total <= offset

\* actual_total = self.get_total_records(), then the check, then the return
AfterRecount(rec, actual_total) ==
    LET r == [rec EXCEPT !.actual_total = actual_total]
    IN  IF BeyondData(actual_total, Offset(r.n))
        THEN RaiseValueError(r, "PageOutOfRange")
        ELSE Return(Leave(r), ListResult(r.rows))

RecountExecute(c) ==
    /\ call[c].pc = "execute" /\ call[c].stage = "recount"
    /\ \E ok \in BOOLEAN :
         call' = [call EXCEPT ![c] =
                    IF ok
                    THEN AfterRecount(Leave([@ EXCEPT !.queries = @ + 1]),
                                      CountRows(stocks, "none", ""))
                    ELSE RaiseException(@)]
    /\ UNCHANGED <<db, stock_query, mutations>>

\* The single query of the point and time-series lookups.
QueryResults(rec) ==
    CASE rec.op = "get_stock_by_symbol" ->
            IF MatchSymbol(stocks, rec.arg) = {} THEN {RowResult(<<>>)}
            ELSE {RowResult(<<r>>) : r \in MatchSymbol(stocks, rec.arg)}
      [] rec.op = "get_stock_by_name" ->
            IF MatchName(stocks, rec.arg) = {} THEN {RowResult(<<>>)}
            ELSE {RowResult(<<r>>) : r \in MatchName(stocks, rec.arg)}
      [] rec.op = "get_recent_7_days_data" ->
            {ListResult(SelectRecent(bars, rec.arg, today))}
      [] rec.op = "get_latest_technical_indicators" ->
            {RowResult(SelectLatest(indicators, rec.arg))}
      [] rec.op = "get_today_predictions_by_ts_code" ->
            {ListResult(SelectToday(predictions, rec.arg, today))}
      [] OTHER -> {ListResult(SelectTop3(top3))}

QueryExecute(c) ==
    /\ call[c].pc = "execute" /\ call[c].stage = "query"
    /\ \E ok \in BOOLEAN :
         IF ok
         THEN \E res \in QueryResults(call[c]) :
                call' = [call EXCEPT ![c] =
                           Return(Leave([@ EXCEPT !.queries = @ + 1, !.rows = res.rows]),
                                  res)]
         ELSE call' = [call EXCEPT ![c] = RaiseException(@)]
    /\ UNCHANGED <<db, stock_query, mutations>>

\* The caller has its answer and may call again.
Done(c) ==
    /\ call[c].pc = "done"
    /\ call' = [call EXCEPT ![c] = IdleCall]
    /\ UNCHANGED <<db, stock_query, mutations>>

\* ------------------------------------------------- direct engine calls
\* A program that holds a StockQuery of its own (import_test.py) calls the
\* methods with any arguments.
Pages == 0..MaxPage

Call_get_stocks_by_page_number(c) ==
    /\ Idle(c)
    /\ \E n \in Pages, check_total \in BOOLEAN :
         call' = [call EXCEPT ![c] = get_stocks_by_page_number("none", n, check_total)]
    /\ UNCHANGED <<db, stock_query, mutations>>

Call_get_stocks_by_page_and_area(c) ==
    /\ Idle(c)
    /\ \E n \in Pages, area \in AreaArgs :
         call' = [call EXCEPT ![c] = get_stocks_by_page_and_area("none", n, area)]
    /\ UNCHANGED <<db, stock_query, mutations>>

Call_get_stocks_by_page_and_industry(c) ==
    /\ Idle(c)
    /\ \E n \in Pages, industry \in IndustryArgs :
         call' = [call EXCEPT ![c] = get_stocks_by_page_and_industry("none", n, industry)]
    /\ UNCHANGED <<db, stock_query, mutations>>

\* get_total_records, get_total_pages and their area and industry variants
Call_totals(c) ==
    /\ Idle(c)
    /\ \E rec \in {get_total_records, get_total_pages}
                  \cup {get_area_total_records(a) : a \in AreaArgs}
                  \cup {get_area_total_pages(a) : a \in AreaArgs}
                  \cup {get_industry_total_records(i) : i \in IndustryArgs}
                  \cup {get_industry_total_pages(i) : i \in IndustryArgs} :
         call' = [call EXCEPT ![c] = rec]
    /\ UNCHANGED <<db, stock_query, mutations>>

Call_get_stock_by_symbol(c) ==
    /\ Idle(c)
    /\ \E symbol \in SymbolArgs :
         call' = [call EXCEPT ![c] = get_stock_by_symbol("none", symbol)]
    /\ UNCHANGED <<db, stock_query, mutations>>

Call_get_stock_by_name(c) ==
    /\ Idle(c)
    /\ \E name \in NameArgs :
         call' = [call EXCEPT ![c] = get_stock_by_name("none", name)]
    /\ UNCHANGED <<db, stock_query, mutations>>

Call_get_recent_7_days_data(c) ==
    /\ Idle(c)
    /\ \E ts_code \in TsCodeArgs :
         call' = [call EXCEPT ![c] = get_recent_7_days_data("none", ts_code)]
    /\ UNCHANGED <<db, stock_query, mutations>>

Call_get_latest_technical_indicators(c) ==
    /\ Idle(c)
    /\ \E ts_code \in TsCodeArgs :
         call' = [call EXCEPT ![c] = get_latest_technical_indicators("none", ts_code)]
    /\ UNCHANGED <<db, stock_query, mutations>>

Call_get_today_predictions_by_ts_code(c) ==
    /\ Idle(c)
    /\ \E ts_code \in TsCodeArgs :
         call' = [call EXCEPT ![c] = get_today_predictions_by_ts_code("none", ts_code)]
    /\ UNCHANGED <<db, stock_query, mutations>>

Call_get_top3_predictions(c) ==
    /\ Idle(c)
    /\ call' = [call EXCEPT ![c] = get_top3_predictions("none")]
    /\ UNCHANGED <<db, stock_query, mutations>>

\* ------------------------------------------------------ HTTP requests
\* A response the client gets without the engine being called.
HttpReply(route, status) ==
    [IdleCall EXCEPT !.route = route, !.pc = "done", !.status = status]

\* Path(..., ge=1): FastAPI answers 422 itself and the handler does not run.
\* Then check_db_connection(), outside the handler's try block.
Handle(route, page_ok, rec) ==
    IF ~page_ok THEN HttpReply(route, 422)
    ELSE IF ~check_db_connection THEN HttpReply(route, 500)
    ELSE rec

\* GET /stocks/page/{page_num}
http_get_stocks_by_page(c) ==
    /\ Idle(c)
    /\ \E page_num \in Pages :
         call' = [call EXCEPT ![c] =
                    Handle("get_stocks_by_page", page_num >= 1,
                           get_stocks_by_page_number("get_stocks_by_page", page_num, TRUE))]
    /\ UNCHANGED <<db, stock_query, mutations>>

\* GET /stocks/symbol/{symbol}
http_get_stock_by_symbol(c) ==
    /\ Idle(c)
    /\ \E symbol \in SymbolArgs \ {""} :
         call' = [call EXCEPT ![c] =
                    Handle("get_stock_by_symbol", TRUE,
                           get_stock_by_symbol("get_stock_by_symbol", symbol))]
    /\ UNCHANGED <<db, stock_query, mutations>>

\* GET /stocks/name/{name}
http_get_stock_by_name(c) ==
    /\ Idle(c)
    /\ \E name \in NameArgs \ {""} :
         call' = [call EXCEPT ![c] =
                    Handle("get_stock_by_name", TRUE,
                           get_stock_by_name("get_stock_by_name", name))]
    /\ UNCHANGED <<db, stock_query, mutations>>

\* GET /stocks/industry/{industry}/page/{page_num}
http_get_stocks_by_industry(c) ==
    /\ Idle(c)
    /\ \E page_num \in Pages, industry \in IndustryArgs \ {""} :
         call' = [call EXCEPT ![c] =
                    Handle("get_stocks_by_industry", page_num >= 1,
                           get_stocks_by_page_and_industry("get_stocks_by_industry",
                                                           page_num, industry))]
    /\ UNCHANGED <<db, stock_query, mutations>>

\* GET /stocks/area/{area}/page/{page_num}
http_get_stocks_by_area(c) ==
    /\ Idle(c)
    /\ \E page_num \in Pages, area \in AreaArgs \ {""} :
         call' = [call EXCEPT ![c] =
                    Handle("get_stocks_by_area", page_num >= 1,
                           get_stocks_by_page_and_area("get_stocks_by_area",
                                                       page_num, area))]
    /\ UNCHANGED <<db, stock_query, mutations>>

\* GET /stocks/{ts_code}/recent-7days
http_get_recent_7_days_data(c) ==
    /\ Idle(c)
    /\ \E ts_code \in TsCodeArgs \ {""} :
         call' = [call EXCEPT ![c] =
                    Handle("get_recent_7_days_data", TRUE,
                           get_recent_7_days_data("get_recent_7_days_data", ts_code))]
    /\ UNCHANGED <<db, stock_query, mutations>>

\* GET /stocks/{ts_code}/technical-indicators/latest
http_get_latest_technical_indicators(c) ==
    /\ Idle(c)
    /\ \E ts_code \in TsCodeArgs \ {""} :
         call' = [call EXCEPT ![c] =
                    Handle("get_latest_technical_indicators", TRUE,
                           get_latest_technical_indicators(
                               "get_latest_technical_indicators", ts_code))]
    /\ UNCHANGED <<db, stock_query, mutations>>

\* GET /stocks/predictions/top3
http_get_top3_stock_predictions(c) ==
    /\ Idle(c)
    /\ call' = [call EXCEPT ![c] =
                  Handle("get_top3_stock_predictions", TRUE,
                         get_top3_predictions("get_top3_stock_predictions"))]
    /\ UNCHANGED <<db, stock_query, mutations>>

\* GET /stocks/{ts_code}/predictions/today
http_get_today_predictions(c) ==
    /\ Idle(c)
    /\ \E ts_code \in TsCodeArgs \ {""} :
         call' = [call EXCEPT ![c] =
                    Handle("get_today_predictions", TRUE,
                           get_today_predictions_by_ts_code("get_today_predictions",
                                                            ts_code))]
    /\ UNCHANGED <<db, stock_query, mutations>>

\* ------------------------------------- other clients of the database
NextId == IF stocks = {} THEN 1 ELSE Max({r.id : r \in stocks}) + 1

InsertStock ==
    /\ mutations < MaxMutations
    /\ \E a \in Areas, ind \in Industries :
         stocks' = stocks \cup {StockRow(NextId, a, ind)}
    /\ mutations' = mutations + 1
    /\ UNCHANGED <<bars, indicators, predictions, top3, today, stock_query, call>>

DeleteStock ==
    /\ mutations < MaxMutations
    /\ \E r \in stocks : stocks' = stocks \ {r}
    /\ mutations' = mutations + 1
    /\ UNCHANGED <<bars, indicators, predictions, top3, today, stock_query, call>>

\* ------------------------------------------------------ initial states
Ticker == "000001.SZ"
OtherTicker == "600000.SH"

SampleIndicators == {[id |-> i, ts_code |-> Ticker] : i \in {1, 2}}

SamplePredictions(curdate) ==
    {[id |-> 1, ts_code |-> Ticker, predict_date |-> curdate - 1],
     [id |-> 2, ts_code |-> Ticker, predict_date |-> curdate],
     [id |-> 3, ts_code |-> Ticker, predict_date |-> curdate]}

SampleTop3 == {[id |-> i, ts_code |-> Ticker] : i \in {1, 2, 3}}

NoCalls == [c \in Callers |-> IdleCall]

\* A database that was never loaded, or one loaded with k stocks and the
\* ticker's bars, indicators and predictions.
InitDb(sizes) ==
    /\ today = FirstToday
    /\ \/ /\ stocks = {} /\ bars = {} /\ indicators = {}
          /\ predictions = {} /\ top3 = {}
       \/ /\ \E k \in sizes : stocks = MkStocks(k)
          /\ bars = WeekdayBars(Ticker, today - MaxBarDays + 1, today)
          /\ indicators = SampleIndicators
          /\ predictions = SamplePredictions(today)
          /\ top3 = SampleTop3

\* The engine, called directly, over tables nobody else writes.
Init ==
    /\ InitDb(1..MaxStocks)
    /\ stock_query = "StockQuery"
    /\ mutations = 0
    /\ call = NoCalls

Steps(c) ==
    \/ Connect(c)
    \/ CountExecute(c)
    \/ PagesExecute(c)
    \/ FetchExecute(c)
    \/ QueryExecute(c)
    \/ Done(c)

Next ==
    \/ Call_get_stocks_by_page_number(Client)
    \/ Call_get_stocks_by_page_and_area(Client)
    \/ Call_get_stocks_by_page_and_industry(Client)
    \/ Call_totals(Client)
    \/ Call_get_stock_by_symbol(Client)
    \/ Call_get_stock_by_name(Client)
    \/ Call_get_recent_7_days_data(Client)
    \/ Call_get_latest_technical_indicators(Client)
    \/ Call_get_today_predictions_by_ts_code(Client)
    \/ Call_get_top3_predictions(Client)
    \/ Steps(Client)

Spec == Init /\ [][Next]_vars

\* The paginated methods, called directly, while other clients insert and
\* delete stocks.
LiveSizes == {1, PageSize, PageSize + 1, 2 * PageSize + 1}

InitLive ==
    /\ InitDb(LiveSizes)
    /\ stock_query = "StockQuery"
    /\ mutations = 0
    /\ call = NoCalls

NextLive ==
    \/ Call_get_stocks_by_page_number(Client)
    \/ Call_get_stocks_by_page_and_area(Client)
    \/ Call_get_stocks_by_page_and_industry(Client)
    \/ Connect(Client)
    \/ CountExecute(Client)
    \/ PagesExecute(Client)
    \/ FetchExecute(Client)
    \/ RecountExecute(Client)
    \/ Done(Client)
    \/ InsertStock
    \/ DeleteStock

SpecLive == InitLive /\ [][NextLive]_vars

\* The engine shared by concurrent callers, whose connections come from one
\* pool: each asks get_stocks_by_page_number, check_total left at its
\* default, for the last page of a table that ends one row into it, while
\* other clients delete stocks.
PoolRows == PageSize + 1

Call_last_page(c) ==
    /\ Idle(c)
    /\ call' = [call EXCEPT ![c] =
                  get_stocks_by_page_number("none", TotalPages(PoolRows), TRUE)]
    /\ UNCHANGED <<db, stock_query, mutations>>

InitPool ==
    /\ InitDb({PoolRows})
    /\ stock_query = "StockQuery"
    /\ mutations = 0
    /\ call = NoCalls

NextPool ==
    \/ \E c \in Callers :
          \/ Call_last_page(c)
          \/ Connect(c)
          \/ CountExecute(c)
          \/ FetchExecute(c)
          \/ RecountExecute(c)
          \/ Done(c)
    \/ DeleteStock

SpecPool == InitPool /\ [][NextPool]_vars

\* The service: requests arrive at the routes of main.py, whose engine was
\* or was not created at import, while other clients insert and delete stocks.
InitHttp ==
    /\ InitDb(LiveSizes)
    /\ stock_query \in {"None", "StockQuery"}
    /\ mutations = 0
    /\ call = NoCalls

NextHttp ==
    \/ http_get_stocks_by_page(Client)
    \/ http_get_stock_by_symbol(Client)
    \/ http_get_stock_by_name(Client)
    \/ http_get_stocks_by_industry(Client)
    \/ http_get_stocks_by_area(Client)
    \/ http_get_recent_7_days_data(Client)
    \/ http_get_latest_technical_indicators(Client)
    \/ http_get_top3_stock_predictions(Client)
    \/ http_get_today_predictions(Client)
    \/ Connect(Client)
    \/ CountExecute(Client)
    \/ PagesExecute(Client)
    \/ FetchExecute(Client)
    \/ RecountExecute(Client)
    \/ QueryExecute(Client)
    \/ Done(Client)
    \/ InsertStock
    \/ DeleteStock

SpecHttp == InitHttp /\ [][NextHttp]_vars

\* get_recent_7_days_data on every day of the week, over daily bars that
\* cover the weekdays of the last `span` days, with or without rows the
\* query must leave out: weekend rows, rows older than the lookback, rows
\* of another ticker.
ExtraBars(kind, curdate) ==
    CASE kind = "weekend" ->
            {[ts_code |-> Ticker, trade_date |-> d] :
                d \in {x \in (curdate - LookbackDays)..curdate :
                          Weekday(x) >= WeekdayCut}}
      [] kind = "old" ->
            WeekdayBars(Ticker, curdate - LookbackDays - DaysPerWeek,
                        curdate - LookbackDays - 1)
      [] OTHER ->
            WeekdayBars(OtherTicker, curdate - LookbackDays, curdate)

InitBars ==
    /\ today \in FirstToday..(FirstToday + DaysPerWeek - 1)
    /\ \E span \in 0..MaxBarDays, extras \in SUBSET {"weekend", "old", "other"} :
         bars = WeekdayBars(Ticker, today - span + 1, today)
                  \cup UNION {ExtraBars(k, today) : k \in extras}
    /\ stocks = {} /\ indicators = {} /\ predictions = {} /\ top3 = {}
    /\ stock_query = "StockQuery"
    /\ mutations = 0
    /\ call = NoCalls

NextBars ==
    \/ Call_get_recent_7_days_data(Client)
    \/ Connect(Client)
    \/ QueryExecute(Client)
    \/ Done(Client)

SpecBars == InitBars /\ [][NextBars]_vars

\* =============================================================== claims
PageOps ==
    {"get_stocks_by_page_number", "get_stocks_by_page_and_area",
     "get_stocks_by_page_and_industry"}

FilteredOps == {"get_stocks_by_page_and_area", "get_stocks_by_page_and_industry"}

PagesOps == {"get_total_pages", "get_area_total_pages", "get_industry_total_pages"}

\* ceil(count / 20) as the least p with 20 * p >= count
LeastPages(count) ==
    CHOOSE p \in 0..count :
        /\ PageSize * p >= count
        /\ \A q \in 0..count : PageSize * q >= count => p <= q

\* A direct call that has ended, and not by a storage failure.
Answered(rec) ==
    rec.pc = "done" /\ rec.route = "none" /\ rec.error # "StorageFailure"

\* A paginated call as the claims take it: a page number >= 1, a filter
\* value that is not empty, and the page check of the unfiltered method on.
PageCall(rec) ==
    /\ Answered(rec) /\ rec.op \in PageOps /\ rec.n >= 1
    /\ rec.op \in FilteredOps => rec.arg # ""
    /\ rec.op = "get_stocks_by_page_number" => rec.check_total

Matching(rec) == CountRows(stocks, rec.filter, rec.arg)

C2_EmptyFirstPage ==
    \A c \in Callers :
        LET rec == call[c]
            total_pages == LeastPages(Matching(rec))
        IN  (PageCall(rec) /\ rec.op = "get_stocks_by_page_number") =>
              /\ (stocks = {} /\ rec.n = 1) =>
                    (rec.outcome = "return" /\ rec.result.rows = <<>>)
              /\ rec.error = "PageOutOfRange" =>
                    (total_pages > 0 /\ rec.n > total_pages)

\* C3: when the filter value of the area or industry method matches no row,
\* the call returns an empty list for every n >= 1 and raises nothing.
C3_EmptyFilter ==
    \A c \in Callers :
        LET rec == call[c]
        IN  (PageCall(rec) /\ rec.op \in FilteredOps /\ Matching(rec) = 0) =>
              /\ rec.outcome = "return"
              /\ rec.result = ListResult(<<>>)

\* The largest page asked of an area no stock of a loaded table is in.
C3_Witness ==
    \E c \in Callers :
        /\ PageCall(call[c]) /\ call[c].op = "get_stocks_by_page_and_area"
        /\ call[c].arg = "xx" /\ call[c].n = MaxPage /\ stocks # {}
        /\ call[c].outcome = "return"

\* C4: get_total_pages, get_area_total_pages and get_industry_total_pages
\* return 0 for a count of 0 and otherwise the least p with 20*p >= count; so
\* no smaller count has more pages, and a count of 25 has 2.
C4_TotalPages ==
    \A c \in Callers :
        LET rec == call[c]
        IN  (Answered(rec) /\ rec.op \in PagesOps) =>
              /\ rec.outcome = "return"
              /\ rec.total = Matching(rec)
              /\ rec.result.num = (IF rec.total = 0 THEN 0 ELSE LeastPages(rec.total))
              /\ \A k \in 0..rec.total : TotalPages(k) <= rec.result.num
              /\ rec.total = 25 => rec.result.num = 2

C4_Witness ==
    \E c \in Callers :
        /\ Answered(call[c]) /\ call[c].op = "get_total_pages"
        /\ call[c].total = 25 /\ call[c].result = IntResult(2)

\* C5: the last page (n = total_pages, total >= 1) of the area and industry
\* methods has exactly total - 20*(total_pages-1) rows, at least 1 and at
\* most 20, and that number is the LIMIT the query was sent with.
C5_LastPage ==
    \A c \in Callers :
        LET rec == call[c]
            total == Matching(rec)
            total_pages == LeastPages(total)
            tail == total - PageSize * (total_pages - 1)
        IN  (PageCall(rec) /\ rec.op \in FilteredOps /\ total >= 1
               /\ rec.n = total_pages) =>
              /\ rec.outcome = "return"
              /\ Len(rec.result.rows) = tail
              /\ rec.limit = tail
              /\ tail >= 1 /\ tail <= PageSize

\* 45 stocks, 30 of them "tech": page 2 of that industry has 10 rows.
C5_Witness ==
    \E c \in Callers :
        /\ PageCall(call[c]) /\ call[c].op = "get_stocks_by_page_and_industry"
        /\ call[c].arg = "tech" /\ Matching(call[c]) = 30 /\ call[c].n = 2
        /\ Len(call[c].result.rows) = 10

\* C6: whenever the engine's answer is the one a handler treats as not found
\* (None or an empty list), the client receives status 404.
C6_NotFound404 ==
    \A c \in Callers :
        LET rec == call[c]
        IN  (rec.pc = "done" /\ rec.route \in NotFoundRoutes
               /\ rec.outcome = "return" /\ Falsy(rec.result)) =>
              rec.status = 404

\* C7: through every route, a ValueError of the engine is answered with 400,
\* the engine's wrapped database exception with 500, an engine that was never
\* created with 500 (and without touching the pool), and none of them with a
\* 2xx status.
C7_ErrorStatus ==
    \A c \in Callers :
        LET rec == call[c]
        IN  (rec.pc = "done" /\ rec.route # "none") =>
              /\ rec.outcome = "ValueError" => rec.status = 400
              /\ rec.outcome = "Exception" => rec.status = 500
              /\ (stock_query = "None" /\ rec.status # 422) =>
                    (rec.status = 500 /\ rec.acquired = 0)
              /\ rec.outcome \in {"ValueError", "Exception"} =>
                    rec.status \notin 200..299

\* The ValueError get_stocks_by_page_number raises after its fetch and its
\* second count, answered with 400.
C7_Witness ==
    \E c \in Callers :
        /\ call[c].pc = "done" /\ call[c].route = "get_stocks_by_page"
        /\ call[c].error = "PageOutOfRange" /\ call[c].queries = 3
        /\ call[c].status = 400

TextOps ==
    {"get_stock_by_symbol", "get_stock_by_name", "get_stocks_by_page_and_area",
     "get_stocks_by_page_and_industry", "get_recent_7_days_data",
     "get_latest_technical_indicators", "get_today_predictions_by_ts_code"}

\* The arguments the methods reject: a page number < 1, an empty required text.
Invalid(rec) ==
    \/ rec.op \in PageOps /\ rec.n < 1
    \/ rec.op \in TextOps /\ rec.arg = ""

\* C8: a call with a page number < 1 or an empty required text fails at once
\* with the invalid-argument ValueError, and a call that failed so has issued no
\* query and taken no connection.
C8_ValidationFirst ==
    \A c \in Callers :
        LET rec == call[c]
        IN  rec.op # "idle" =>
              /\ Invalid(rec) => (rec.pc = "done" /\ rec.error = "InvalidArgument")
              /\ rec.error = "InvalidArgument" =>
                    /\ Invalid(rec) /\ rec.outcome = "ValueError"
                    /\ rec.queries = 0 /\ rec.acquired = 0 /\ rec.held = 0

\* A valid page number with an empty area: rejected by the second check.
C8_Witness ==
    \E c \in Callers :
        /\ call[c].op = "get_stocks_by_page_and_area" /\ call[c].n >= 1
        /\ call[c].arg = "" /\ call[c].error = "InvalidArgument"
        /\ call[c].queries = 0

\* The rows of a result are on weekdays and strictly descending by trade_date.
WeekdaysDescending(rows) ==
    /\ \A i \in 1..Len(rows) : Weekday(rows[i].trade_date) < WeekdayCut
    /\ \A i \in 1..(Len(rows) - 1) : rows[i].trade_date > rows[i + 1].trade_date

\* get_recent_7_days_data(Ticker) has returned.
RecentReturned(rec) ==
    /\ rec.pc = "done" /\ rec.op = "get_recent_7_days_data"
    /\ rec.arg = Ticker /\ rec.outcome = "return"

\* The weekdays among the last 10 calendar days, today included.
LastTenWeekdays == {d \in (today - 9)..today : Weekday(d) < WeekdayCut}

\* C9 as stated: on every day of the week, over a table that holds one bar of
\* the ticker on every weekday of the last 10 calendar days, the result has
\* exactly 7 rows, all on weekdays, strictly descending.
C9_SevenRows ==
    \A c \in Callers :
        (RecentReturned(call[c]) /\ bars = WeekdayBars(Ticker, today - 9, today)) =>
           /\ Len(call[c].result.rows) = 7
           /\ WeekdaysDescending(call[c].result.rows)

\* C9 as amended: over a table whose weekday bars of the ticker within the
\* lookback are those of the last 10 calendar days (it may also hold weekend
\* rows, older rows and rows of other tickers), the result has min(7, w) rows,
\* w the number of weekdays among those 10 days; they are the most recent of
\* those weekdays, strictly descending.
C9_RecentWeekdays ==
    \A c \in Callers :
        LET rows == call[c].result.rows
            inWindow == {r \in bars : /\ r.ts_code = Ticker
                                      /\ r.trade_date >= today - LookbackDays
                                      /\ Weekday(r.trade_date) < WeekdayCut}
        IN  (RecentReturned(call[c])
               /\ {r.trade_date : r \in inWindow} = LastTenWeekdays) =>
              /\ Len(rows) = Min2(7, Cardinality(LastTenWeekdays))
              /\ WeekdaysDescending(rows)
              /\ \A i \in 1..Len(rows) : rows[i] \in inWindow
              /\ \A r \in inWindow :
                    (\E i \in 1..Len(rows) : rows[i] = r)
                      \/ \A i \in 1..Len(rows) : rows[i].trade_date > r.trade_date

\* A Sunday: the last 10 days hold 6 weekdays, and 6 rows come back although
\* the table also holds weekend rows.
C9_Witness ==
    \E c \in Callers :
        /\ RecentReturned(call[c])
        /\ Weekday(today) = 6
        /\ WeekdayBars(Ticker, today - 9, today) \subseteq bars
        /\ \E r \in bars : r.ts_code = Ticker /\ Weekday(r.trade_date) >= WeekdayCut
        /\ {r.trade_date : r \in {x \in bars : /\ x.ts_code = Ticker
                                                /\ x.trade_date >= today - LookbackDays
                                                /\ Weekday(x.trade_date) < WeekdayCut}}
             = LastTenWeekdays
        /\ Len(call[c].result.rows) = 6

\* get_stocks_by_page_number, called with the page check on, has passed the
\* check and sent its slice query, and no query of the call failed.
Fetched(rec) ==
    /\ Answered(rec) /\ rec.op = "get_stocks_by_page_number"
    /\ rec.check_total /\ rec.queries >= 2

Runs(c, stage) ==
    /\ call[c].pc = "execute" /\ call[c].stage = stage
    /\ call'[c].queries = call[c].queries + 1

\* What every step keeps true of counts: a call starts with none, a count that
\* runs is the count of the table as it is then, and the page count is derived
\* from a count of this call.
FreshCounts(c) ==
    /\ (call[c].pc = "idle" /\ call'[c].pc # "idle") =>
          (call'[c].queries = 0 /\ call'[c].total = 0 /\ call'[c].total_pages = 0)
    /\ Runs(c, "count") =>
          /\ call'[c].total = CountRows(stocks, call[c].filter, call[c].arg)
          /\ call[c].op = "get_stocks_by_page_number" =>
                call'[c].total_pages = LeastPages(call'[c].total)
    /\ Runs(c, "pages") =>
          call'[c].total_pages
            = LeastPages(CountRows(stocks, call[c].filter, call[c].arg))

\* The slice query is sent by a call that has counted and has checked n.
CheckedBefore(c) ==
    /\ call[c].queries >= (IF call[c].op \in FilteredOps THEN 2 ELSE 1)
    /\ call[c].total >= 1
    /\ call[c].n >= 1 /\ call[c].n <= call[c].total_pages

\* C11 as stated: no call of the three paginated methods sends its slice
\* query without having, in the same call, counted afresh and checked n against
\* the page count of that count; no earlier count is reused.
C11_AlwaysChecked ==
    [][\A c \in Callers :
          /\ FreshCounts(c)
          /\ Runs(c, "fetch") => CheckedBefore(c)]_vars

\* C11 as amended: the same, for the area and industry methods and for
\* get_stocks_by_page_number called with check_total=True (the default); with
\* check_total=False that method sends its slice query with no count and no
\* check.
C11_CheckedUnlessOptedOut ==
    [][\A c \in Callers :
          /\ FreshCounts(c)
          /\ Runs(c, "fetch") =>
                IF call[c].op = "get_stocks_by_page_number" /\ ~call[c].check_total
                THEN call[c].queries = 0
                ELSE CheckedBefore(c)]_vars

\* A filtered page returned after its two counts and its fetch, from a table
\* another client has since changed.
C11_Witness ==
    \E c \in Callers :
        /\ call[c].pc = "done" /\ call[c].op \in FilteredOps
        /\ call[c].outcome = "return" /\ call[c].queries = 3
        /\ call[c].rows # <<>>
        /\ call[c].total # Matching(call[c])

\* C12: a call that has completed, with a result, a validation error or a
\* storage failure, holds no connection, and once every caller's call has
\* completed no connection is checked out of the pool.
C12_AllReleased ==
    /\ \A c \in Callers :
          /\ call[c].held >= 0
          /\ call[c].pc \in {"idle", "done"} => call[c].held = 0
    /\ (\A c \in Callers : call[c].pc \in {"idle", "done"}) => CheckedOut = 0

\* Two concurrent calls have completed, one refused by the recount made while
\* its fetch connection was open, the other by a storage failure after it had
\* connected, and the pool is whole.
C12_Witness ==
    \E c, d \in Callers :
        /\ c # d
        /\ call[c].pc = "done" /\ call[c].error = "PageOutOfRange"
        /\ call[c].acquired = 3
        /\ call[d].pc = "done" /\ call[d].error = "StorageFailure"
        /\ call[d].acquired >= 1
        /\ CheckedOut = 0

\* Caller c asks the pool for a connection while it holds one.
HoldAndWait(c) == call[c].pc = "connect" /\ call[c].held >= 1

\* Every caller holds a connection and waits for another, and the pool has
\* none left to give.
Starved == CheckedOut >= PoolSize /\ \A c \in Callers : HoldAndWait(c)

\* C14: no engine operation holds more than one pooled connection at any
\* moment and none asks for a second while it holds one, so concurrent calls
\* never all wait, each holding a connection, on a pool that is used up.
C14_OneConnectionPerCall ==
    /\ \A c \in Callers : call[c].held <= 1 /\ ~HoldAndWait(c)
    /\ ~Starved

\* Caller c is about to send, or is sending, the slice query of a filtered page.
SendsFilteredSlice(c) ==
    /\ call[c].op \in FilteredOps
    /\ call[c].stage = "fetch" /\ call[c].pc \in {"connect", "execute"}

\* C13: the LIMIT sent with the slice query of get_stocks_by_page_and_area and
\* get_stocks_by_page_and_industry is an integer in 1..20, whatever other
\* clients insert or delete between the call's two count queries.
C13_LimitInRange ==
    \A c \in Callers :
        SendsFilteredSlice(c) => call[c].limit \in 1..PageSize

\* The records of the table that a paginated call's filter selects.
Wanted(rec) ==
    {r \in stocks : \/ rec.filter = "none"
                    \/ rec.filter = "area" /\ r.area = rec.arg
                    \/ rec.filter = "industry" /\ r.industry = rec.arg}

\* The number of selected records that come before r in ascending id order.
Rank(r, W) == Cardinality({x \in W : x.id < r.id})

\* C15: over a table nobody writes, page n of each of the three paginated
\* queries, 1 <= n <= total_pages, is the n-th run of 20 of the records matching
\* the filter taken in ascending id order: the record of rank k is returned on
\* page k div 20 + 1 at position k mod 20 + 1 and nothing else is returned, so
\* pages 1..total_pages in order give every matching record exactly once.
C15_PagesPartition ==
    \A c \in Callers :
        LET rec == call[c]
            W == Wanted(rec)
            rows == rec.result.rows
            OnPage == {r \in W : (Rank(r, W) \div PageSize) + 1 = rec.n}
        IN  ( /\ Answered(rec) /\ rec.op \in PageOps
              /\ rec.op \in FilteredOps => rec.arg # ""
              /\ rec.n >= 1 /\ rec.n <= LeastPages(Cardinality(W)) ) =>
              /\ rec.outcome = "return"
              /\ Len(rows) = Cardinality(OnPage)
              /\ \A r \in OnPage :
                    LET i == (Rank(r, W) % PageSize) + 1
                    IN  i <= Len(rows) /\ rows[i] = r

\* The second page of a filtered list: it starts at the 21st matching record,
\* whose id lies beyond 21 because records of other areas come in between.
C15_Witness ==
    \E c \in Callers :
        /\ Answered(call[c]) /\ call[c].op \in FilteredOps
        /\ call[c].n > 1 /\ call[c].outcome = "return"
        /\ Len(call[c].result.rows) > 1
        /\ call[c].result.rows[1].id > PageSize * (call[c].n - 1) + 1

====
